---- MODULE Spec2Model ----
(***************************************************************************)
(* Model of the betting core of claude-keiba:                              *)
(*   backend/calculators/expected_value.py  (blended win probability, EV)  *)
(*   backend/calculators/budget_optimizer.py (Dutch / covering allocator)  *)
(*                                                                         *)
(* Numbers.  Python floats are modelled as exact rationals <<n, d>> with   *)
(* d > 0, kept in lowest terms.  odds_win is carried in tenths (20 = 2.0), *)
(* last_3f in tenths of a second (350 = 35.0), as the scrapers deliver     *)
(* them with one decimal.  A dict key is a record [k, v]: k = "absent"     *)
(* (no key), "null" (None) or "val" (v is the value).  A TypeError that    *)
(* Python would raise is the outcome raised = TRUE.                        *)
(***************************************************************************)
EXTENDS Integers, Sequences, FiniteSets, TLC

\* ------------------------------------------------------------------------
\* Optional values (dict keys that may be missing or None)
\* ------------------------------------------------------------------------
Absent == [k |-> "absent", v |-> 0]

Null == [k |-> "null", v |-> 0]

Val(x) == [k |-> "val", v |-> x]

IsVal(o) == o.k = "val"

\* ------------------------------------------------------------------------
\* Exact rational arithmetic
\* ------------------------------------------------------------------------
Abs(x) == IF x < 0 THEN -x ELSE x

RECURSIVE Gcd(_, _)
Gcd(a, b) == IF b = 0 THEN a ELSE Gcd(b, a % b)

Norm(n, d) ==
  LET g == Gcd(Abs(n), d)
  IN  <<n \div g, d \div g>>

R(n, d) == Norm(n, d)

RInt(n) == <<n, 1>>

RAdd(a, b) ==
  LET g == Gcd(a[2], b[2])
      l == (a[2] \div g) * b[2]
  IN  Norm(a[1] * (l \div a[2]) + b[1] * (l \div b[2]), l)

RNeg(a) == <<-a[1], a[2]>>

RSub(a, b) == RAdd(a, RNeg(b))

RMul(a, b) ==
  LET g1 == Gcd(Abs(a[1]), b[2])
      g2 == Gcd(Abs(b[1]), a[2])
  IN  Norm((a[1] \div g1) * (b[1] \div g2), (a[2] \div g2) * (b[2] \div g1))

\* a / b for b > 0
RDiv(a, b) == RMul(a, <<b[2], b[1]>>)

\* Comparison of n1/d1 with n2/d2, both >= 0, by their continued fractions
\* (no cross product, so no overflow): -1, 0, 1.
RECURSIVE CmpFrac(_, _, _, _)
CmpFrac(n1, d1, n2, d2) ==
  LET q1 == n1 \div d1
      q2 == n2 \div d2
      r1 == n1 % d1
      r2 == n2 % d2
  IN  IF q1 < q2 THEN -1
      ELSE IF q1 > q2 THEN 1
      ELSE IF r1 = 0 /\ r2 = 0 THEN 0
      ELSE IF r1 = 0 THEN -1
      ELSE IF r2 = 0 THEN 1
      ELSE CmpFrac(d2, r2, d1, r1)

RCmp(a, b) ==
  IF a[1] < 0 /\ b[1] >= 0 THEN -1
  ELSE IF a[1] >= 0 /\ b[1] < 0 THEN 1
  ELSE IF a[1] < 0 THEN CmpFrac(-b[1], b[2], -a[1], a[2])
  ELSE CmpFrac(a[1], a[2], b[1], b[2])

RLe(a, b) == RCmp(a, b) <= 0

RLt(a, b) == RCmp(a, b) < 0

RMax(a, b) == IF RLt(a, b) THEN b ELSE a

RMin(a, b) == IF RLt(b, a) THEN b ELSE a

RECURSIVE RSum(_)
RSum(s) == IF s = <<>> THEN RInt(0) ELSE RAdd(s[1], RSum(Tail(s)))

\* s[:n]
Take(s, n) == IF Len(s) <= n THEN s ELSE SubSeq(s, 1, n)

\* ------------------------------------------------------------------------
\* expected_value.py : hyper-parameter and factor functions
\* ------------------------------------------------------------------------
\* ALPHA = 0.40
ALPHA == R(40, 100)

\* dict.get(key, default) on a numeric key: a missing key gives the default,
\* a None value stays None (comparing it with a number raises TypeError).
IsNone(o) == o.k = "null"

GetOr(o, default) == IF o.k = "absent" THEN default ELSE o.v

\* `x or 0` / `x or []` : missing, None and falsy values give the default
OrElse(o, default) == IF o.k = "val" THEN o.v ELSE default

\* _gate_factor(gate)
GateFactor(gate) ==
  IF gate <= 0 THEN R(100, 100)
  ELSE IF gate <= 3 THEN R(104, 100)
  ELSE IF gate <= 6 THEN R(100, 100)
  ELSE R(96, 100)

\* mutant of WeightChangeFactor: the bounds of the gain band are exclusive
WeightChangeFactorOpen(wc) ==
  IF ~IsVal(wc) THEN R(100, 100)
  ELSE IF 2 < wc.v /\ wc.v < 8 THEN R(104, 100)
  ELSE IF -2 <= wc.v /\ wc.v < 2 THEN R(100, 100)
  ELSE IF (-6 <= wc.v /\ wc.v < -2) \/ (8 < wc.v /\ wc.v <= 12) THEN R(95, 100)
  ELSE R(90, 100)

\* _weight_change_factor(wc), wc an optional integer
WeightChangeFactor(wc) ==
  IF ~IsVal(wc) THEN R(100, 100)
  ELSE IF 2 <= wc.v /\ wc.v <= 8 THEN R(104, 100)
  ELSE IF -2 <= wc.v /\ wc.v < 2 THEN R(100, 100)
  ELSE IF (-6 <= wc.v /\ wc.v < -2) \/ (8 < wc.v /\ wc.v <= 12) THEN R(95, 100)
  ELSE R(90, 100)

\* the condition `rank is not None and n > 1` of _ranking_factor
RankQualifies(r) == IsVal(r.ranking) /\ GetOr(r.field_size, 0) > 1

\* ... which raises TypeError when rank is present and field_size is None
RankRaises(r) == IsVal(r.ranking) /\ IsNone(r.field_size)

RankScore(r) == R(r.field_size.v - r.ranking.v, r.field_size.v - 1)

RECURSIVE MapRankScore(_)
MapRankScore(s) ==
  IF s = <<>> THEN <<>> ELSE <<RankScore(s[1])>> \o MapRankScore(Tail(s))

\* mutant of RankingFactor: the three most recent qualifying records
RankingFactorFilterFirst(history) ==
  LET scores == MapRankScore(Take(SelectSeq(history, RankQualifies), 3))
  IN  IF scores = <<>> THEN RInt(1)
      ELSE LET avg  == RDiv(RSum(scores), RInt(Len(scores)))
               mult == RAdd(RInt(1), RMul(RSub(avg, R(1, 2)), R(40, 100)))
           IN  RMax(R(80, 100), RMin(R(120, 100), mult))

\* mutant of RankingFactor: no clamp
RankingFactorUnclamped(history) ==
  LET scores == MapRankScore(SelectSeq(Take(history, 3), RankQualifies))
  IN  IF scores = <<>> THEN RInt(1)
      ELSE LET avg == RDiv(RSum(scores), RInt(Len(scores)))
           IN  RAdd(RInt(1), RMul(RSub(avg, R(1, 2)), R(40, 100)))

\* _ranking_factor(history)
RankingFactor(history) ==
  LET scores == MapRankScore(SelectSeq(Take(history, 3), RankQualifies))
  IN  IF scores = <<>> THEN RInt(1)
      ELSE LET avg  == RDiv(RSum(scores), RInt(Len(scores)))
               mult == RAdd(RInt(1), RMul(RSub(avg, R(1, 2)), R(40, 100)))
           IN  RMax(R(80, 100), RMin(R(120, 100), mult))

RankingFactorRaises(history) ==
  \E j \in 1..Len(Take(history, 3)) : RankRaises(history[j])

\* the filter `r.get("last_3f", 0) > 0` of _avg_last_3f
HasLast3f(r) == GetOr(r.last_3f, 0) > 0

RECURSIVE MapLast3f(_)
MapLast3f(s) ==
  IF s = <<>> THEN <<>> ELSE <<R(s[1].last_3f.v, 10)>> \o MapLast3f(Tail(s))

\* _avg_last_3f(history), in seconds; 0 = no data
AvgLast3f(history) ==
  LET vals == MapLast3f(SelectSeq(Take(history, 3), HasLast3f))
  IN  IF vals = <<>> THEN RInt(0) ELSE RDiv(RSum(vals), RInt(Len(vals)))

\* _avg_last_3f raises TypeError on history = None (None[:3]) and on a
\* record whose last_3f is None (None > 0)
AvgLast3fRaises(hist) ==
  \/ IsNone(hist)
  \/ /\ IsVal(hist)
     /\ \E j \in 1..Len(Take(hist.v, 3)) : IsNone(hist.v[j].last_3f)

\* mutant of Last3fFactor: the difference taken the other way round
Last3fFactorReversed(history, global_avg) ==
  IF RLe(global_avg, RInt(0)) THEN RInt(1)
  ELSE LET horse_avg == AvgLast3f(history)
       IN  IF RLe(horse_avg, RInt(0)) THEN RInt(1)
           ELSE LET diff == RSub(horse_avg, global_avg)
                    mult == RAdd(RInt(1), RMul(diff, R(24, 1000)))
                IN  RMax(R(88, 100), RMin(R(112, 100), mult))

\* _last3f_factor(history, global_avg)
Last3fFactor(history, global_avg) ==
  IF RLe(global_avg, RInt(0)) THEN RInt(1)
  ELSE LET horse_avg == AvgLast3f(history)
       IN  IF RLe(horse_avg, RInt(0)) THEN RInt(1)
           ELSE LET diff == RSub(global_avg, horse_avg)
                    mult == RAdd(RInt(1), RMul(diff, R(24, 1000)))
                IN  RMax(R(88, 100), RMin(R(112, 100), mult))

\* ------------------------------------------------------------------------
\* expected_value.py : calculate_expected_values
\* ------------------------------------------------------------------------
\* h.get("odds_win", 0) > 0
IsValid(h) == GetOr(h.odds_win, 0) > 0

\* Inputs on which calculate_expected_values raises TypeError:
\*   line 70  : odds_win is None            (None > 0)
\*   line 79  : a valid entrant's race_history is None, or one of its three
\*              latest records has last_3f None
\*   line 100 : a valid entrant's record has a ranking and field_size None
EVRaises(horses) ==
  \/ \E i \in 1..Len(horses) : IsNone(horses[i].odds_win)
  \/ \E i \in 1..Len(horses) :
       /\ IsValid(horses[i])
       /\ \/ AvgLast3fRaises(horses[i].race_history)
          \/ RankingFactorRaises(OrElse(horses[i].race_history, <<>>))

HasAvg(h) == RLt(RInt(0), AvgLast3f(OrElse(h.race_history, <<>>)))

RECURSIVE MapAvg(_)
MapAvg(s) ==
  IF s = <<>> THEN <<>>
  ELSE <<AvgLast3f(OrElse(s[1].race_history, <<>>))>> \o MapAvg(Tail(s))

\* mutant of All3fAvgs: the averages of all entrants, valid or not
All3fAvgsOfAll(horses) == MapAvg(SelectSeq(horses, HasAvg))

\* all_3f_avgs: the positive averages of the valid entrants
All3fAvgs(horses) == MapAvg(SelectSeq(SelectSeq(horses, IsValid), HasAvg))

\* global_3f_avg
Global3fAvg(horses) ==
  LET all_3f_avgs == All3fAvgs(horses)
  IN  IF all_3f_avgs = <<>> THEN RInt(0)
      ELSE RDiv(RSum(all_3f_avgs), RInt(Len(all_3f_avgs)))

FormScore(horse, global_3f_avg) ==
  LET gate    == OrElse(horse.gate_number, 0)
      wc      == horse.weight_change
      history == OrElse(horse.race_history, <<>>)
  IN  RMul(RMul(GateFactor(gate), WeightChangeFactor(wc)),
           RMul(RankingFactor(history), Last3fFactor(history, global_3f_avg)))

\* mutant of WorkEntry: an entrant without odds keeps the neutral form 1.0
WorkEntryNeutral(horse, global_3f_avg) ==
  IF GetOr(horse.odds_win, 0) <= 0
  THEN [horse |-> horse, inv_odds |-> RInt(0), form_score |-> RInt(1)]
  ELSE [horse      |-> horse,
        inv_odds   |-> R(10, horse.odds_win.v),
        form_score |-> FormScore(horse, global_3f_avg)]

\* one element of `work` (Step 1)
WorkEntry(horse, global_3f_avg) ==
  IF GetOr(horse.odds_win, 0) <= 0
  THEN [horse |-> horse, inv_odds |-> RInt(0), form_score |-> RInt(0)]
  ELSE [horse      |-> horse,
        inv_odds   |-> R(10, horse.odds_win.v),
        form_score |-> FormScore(horse, global_3f_avg)]

Work(horses) ==
  LET g == Global3fAvg(horses)
  IN  [i \in 1..Len(horses) |-> WorkEntry(horses[i], g)]

RECURSIVE SumField(_, _)
SumField(work, f) ==
  IF work = <<>> THEN RInt(0) ELSE RAdd(work[1][f], SumField(Tail(work), f))

TotalInvOdds(work) == SumField(work, "inv_odds")

TotalForm(work) == SumField(work, "form_score")

\* {**base, "win_probability": p, "expected_value": ev}
WithEV(base, p, ev) ==
  ("win_probability" :> p @@ "expected_value" :> ev) @@ base

\* mutant of Blend: the two weights exchanged
BlendSwapped(p_form, p_market) ==
  RAdd(RMul(ALPHA, p_market), RMul(RSub(RInt(1), ALPHA), p_form))

\* p_model = ALPHA * p_form + (1 - ALPHA) * p_market
Blend(p_form, p_market) ==
  RAdd(RMul(ALPHA, p_form), RMul(RSub(RInt(1), ALPHA), p_market))

\* one element of `results` (Steps 2 and 3)
ResultEntry(w, total_inv_odds, total_form) ==
  IF RLe(w.inv_odds, RInt(0)) \/ RLe(total_inv_odds, RInt(0))
  THEN WithEV(w.horse, RInt(0), RInt(0))
  ELSE LET p_market == RDiv(w.inv_odds, total_inv_odds)
           p_form   == IF RLt(RInt(0), total_form)
                       THEN RDiv(w.form_score, total_form)
                       ELSE p_market
           p_model  == Blend(p_form, p_market)
           ev       == RSub(RMul(R(w.horse.odds_win.v, 10), p_model), RInt(1))
       IN  WithEV(w.horse, p_model, ev)

\* the list calculate_expected_values returns when it does not raise
EVResults(horses) ==
  IF horses = <<>> THEN <<>>
  ELSE IF SelectSeq(horses, IsValid) = <<>>
  THEN [i \in 1..Len(horses) |-> WithEV(horses[i], RInt(0), RInt(0))]
  ELSE LET work           == Work(horses)
           total_inv_odds == TotalInvOdds(work)
           total_form     == TotalForm(work)
       IN  [i \in 1..Len(horses) |->
              ResultEntry(work[i], total_inv_odds, total_form)]

\* mutant of InputAfterEV: the two keys written into the input dicts
InputAfterEVInPlace(horses) == EVResults(horses)

\* The input list as the call leaves it: every write goes to the copy
\* `base` / the new dict {**base, ...}, never to an element of `horses`.
InputAfterEV(horses) == horses

\* calculate_expected_values(horses): outcome, returned list, input afterwards
CalculateExpectedValuesOf(horses) ==
  IF EVRaises(horses)
  THEN [raised |-> TRUE, out |-> <<>>, inp |-> horses]
  ELSE [raised |-> FALSE, out |-> EVResults(horses), inp |-> InputAfterEV(horses)]

\* ------------------------------------------------------------------------
\* Rounding (Python round) and the long products of budget_optimizer.py
\* ------------------------------------------------------------------------
\* round half to even of q + r/d, 0 <= r < d
RoundQR(q, r, d) ==
  IF 2 * r < d THEN q
  ELSE IF 2 * r > d THEN q + 1
  ELSE IF q % 2 = 0 THEN q ELSE q + 1

\* decimal digits of a >= 0, most significant first
RECURSIVE Digits(_)
Digits(a) == IF a < 10 THEN <<a>> ELSE Digits(a \div 10) \o <<a % 10>>

\* <<floor(a*n/d), (a*n) mod d>> for a >= 0, 0 <= n, d > 0, digit by digit so
\* that no intermediate product leaves the machine integers
RECURSIVE MulDivQR(_, _, _, _, _)
MulDivQR(ds, n, d, q, r) ==
  IF ds = <<>> THEN <<q, r>>
  ELSE LET t == 10 * r + ds[1] * n
       IN  MulDivQR(Tail(ds), n, d, 10 * q + (t \div d), t % d)

\* round(a * n / d)
MulDivRound(a, n, d) ==
  LET qr == MulDivQR(Digits(a), n, d, 0, 0)
  IN  RoundQR(qr[1], qr[2], d)

\* round(x, nd) for a rational x >= 0, in units of 10^-nd
Pow10(nd) == IF nd = 4 THEN 10000 ELSE IF nd = 2 THEN 100 ELSE 1

RoundTo(x, nd) == MulDivRound(Pow10(nd), x[1], x[2])

\* Unbounded naturals as decimal digit sequences, least significant first
RECURSIVE BigOf(_)
BigOf(a) == IF a < 10 THEN <<a>> ELSE <<a % 10>> \o BigOf(a \div 10)

RECURSIVE BigMul(_, _, _)
BigMul(b, s, carry) ==
  IF b = <<>> THEN (IF carry = 0 THEN <<>> ELSE BigOf(carry))
  ELSE LET t == b[1] * s + carry
       IN  <<t % 10>> \o BigMul(Tail(b), s, t \div 10)

\* <<quotient, remainder>> of b by s; the quotient keeps its leading zeros
RECURSIVE BigDiv(_, _, _)
BigDiv(b, s, k) ==
  IF k = 0 THEN <<<<>>, 0>>
  ELSE LET hi == BigDiv(b, s, k - 1)
           t  == hi[2] * 10 + b[Len(b) - k + 1]
       IN  <<<<t \div s>> \o hi[1], t % s>>

RECURSIVE BigMulAll(_, _)
BigMulAll(b, fs) ==
  IF fs = <<>> THEN b ELSE BigMulAll(BigMul(b, fs[1], 0), Tail(fs))

\* divide by every element of ds in turn: <<quotient, all divisions exact>>
RECURSIVE BigDivAll(_, _)
BigDivAll(b, ds) ==
  IF ds = <<>> THEN <<b, TRUE>>
  ELSE LET qr   == BigDiv(b, ds[1], Len(b))
           rest == BigDivAll(qr[1], Tail(ds))
       IN  <<rest[1], rest[2] /\ qr[2] = 0>>

RECURSIVE BigToInt(_)
BigToInt(b) == IF b = <<>> THEN 0 ELSE b[1] + 10 * BigToInt(Tail(b))

\* ------------------------------------------------------------------------
\* budget_optimizer.py : optimize_budget
\* ------------------------------------------------------------------------
\* the stake unit of 100 (yen) written into lines 55 and 72
Unit == 100

\* empty = {"bets": [], "total_bet": 0, "guaranteed_return": 0,
\*          "remaining_budget": budget, "coverage": 0.0}
EmptyResult(b) ==
  [bets |-> <<>>, total_bet |-> 0, guaranteed_return |-> 0,
   remaining_budget |-> b, coverage |-> 0]

\* mutant of Eligible: any positive odds
EligiblePositive(h) == GetOr(h.odds_win, 0) > 0

\* h.get("odds_win", 0) > 1.0
Eligible(h) == GetOr(h.odds_win, 0) > 10

\* mutant of InsertDesc: h goes in front of the elements equal to it
RECURSIVE InsertDescUnstable(_, _)
InsertDescUnstable(sorted, h) ==
  IF sorted = <<>> THEN <<h>>
  ELSE IF RLe(sorted[1].win_probability, h.win_probability)
  THEN <<h>> \o sorted
  ELSE <<sorted[1]>> \o InsertDescUnstable(Tail(sorted), h)

\* position of h in a list sorted by win_probability, descending: behind
\* every element that is not smaller (list.sort is stable)
RECURSIVE InsertDesc(_, _)
InsertDesc(sorted, h) ==
  IF sorted = <<>> THEN <<h>>
  ELSE IF RLt(sorted[1].win_probability, h.win_probability)
  THEN <<h>> \o sorted
  ELSE <<sorted[1]>> \o InsertDesc(Tail(sorted), h)

RECURSIVE SortFrom(_, _)
SortFrom(sorted, rest) ==
  IF rest = <<>> THEN sorted
  ELSE SortFrom(InsertDesc(sorted, rest[1]), Tail(rest))

\* valid.sort(key=win_probability, reverse=True)
SortByWinProb(valid) == SortFrom(<<>>, valid)

\* mutant of Admits: no rounding margin
AdmitsNoMargin(horse, k, sum, b) ==
  RLe(RAdd(sum, R(10, horse.odds_win.v)), RInt(1))

\* mutant of Admits: the margin is one unit however many are selected
AdmitsUnitMargin(horse, k, sum, b) ==
  RLe(RAdd(RAdd(sum, R(10, horse.odds_win.v)), R(Unit, b)), RInt(1))

\* mutant of Admits: the margin counts the entrants selected so far only
AdmitsKBefore(horse, k, sum, b) ==
  RLe(RAdd(RAdd(sum, R(10, horse.odds_win.v)), R(k * Unit, b)), RInt(1))

\* inv_sum + inv + rounding_margin <= 1.0, k the number selected so far
Admits(horse, k, sum, b) ==
  LET k_after         == k + 1
      rounding_margin == R(k_after * Unit, b)
      inv             == R(10, horse.odds_win.v)
  IN  RLe(RAdd(RAdd(sum, inv), rounding_margin), RInt(1))

\* math.ceil of n/d, d > 0
Ceil(n, d) == -((-n) \div d)

Max(a, b) == IF a < b THEN b ELSE a

\* mutant of BetFor: the stake rounded down to the unit
BetForFloor(b, odds10) == Max(Unit, ((b * 10) \div (odds10 * Unit)) * Unit)

\* bet = max(100, math.ceil(budget / odds / 100) * 100)
BetFor(b, odds10) == Max(Unit, Ceil(b * 10, odds10 * Unit) * Unit)

\* one element of `bets`; expected_return in 1/100, win_probability in 1/10000
BetEntry(horse, b) ==
  LET odds == horse.odds_win.v
      wp   == horse.win_probability
      bet  == BetFor(b, odds)
  IN  [horse_id        |-> horse.horse_id,
       recommended_bet |-> bet,
       if_wins_return  |-> RoundQR((bet * odds) \div 10, (bet * odds) % 10, 10),
       expected_return |-> MulDivRound(bet * odds * 10, wp[1], wp[2]),
       odds_win        |-> odds,
       win_probability |-> RoundTo(wp, 4)]

RECURSIVE SumBets(_)
SumBets(bets) ==
  IF bets = <<>> THEN 0 ELSE bets[1].recommended_bet + SumBets(Tail(bets))

RECURSIVE MinReturn(_)
MinReturn(bets) ==
  IF Len(bets) = 1 THEN bets[1].if_wins_return
  ELSE LET m == MinReturn(Tail(bets))
       IN  IF bets[1].if_wins_return < m THEN bets[1].if_wins_return ELSE m

\* remaining = max(0, budget - total_bet)
Remaining(b, total_bet) == Max(0, b - total_bet)

\* max(0.0, 1.0 - win_probability) for every selected entrant
NoWin(horse) == RMax(RInt(0), RSub(RInt(1), horse.win_probability))

\* coverage = round(1.0 - prod(no-win), 4), in 1/10000
Coverage(selected) ==
  LET nums  == [i \in 1..Len(selected) |-> NoWin(selected[i])[1]]
      dens  == [i \in 1..Len(selected) |-> NoWin(selected[i])[2]]
      qx    == BigDivAll(BigMulAll(BigOf(20000), nums), dens)
      f     == BigToInt(qx[1])
      m     == (20000 - f - 1) \div 2
  IN  IF qx[2] /\ f % 2 = 1
      THEN (IF m % 2 = 0 THEN m ELSE m + 1)
      ELSE 10000 - ((f + 1) \div 2)

\* mutant of FinalSelection: the fallback takes the last of the sorted list
FinalSelectionLast(selected, valid) ==
  IF selected = <<>> THEN <<valid[Len(valid)]>> ELSE selected

\* lines 61-63: nobody admitted -> the first of the sorted list
FinalSelection(selected, valid) ==
  IF selected = <<>> THEN <<valid[1]>> ELSE selected

\* lines 65-106
Allocation(selected, b) ==
  LET bets      == [i \in 1..Len(selected) |-> BetEntry(selected[i], b)]
      total_bet == SumBets(bets)
  IN  [bets              |-> bets,
       total_bet         |-> total_bet,
       guaranteed_return |-> IF bets = <<>> THEN 0 ELSE MinReturn(bets),
       remaining_budget  |-> Remaining(b, total_bet),
       coverage          |-> Coverage(selected)]

\* ------------------------------------------------------------------------
\* Inputs
\* ------------------------------------------------------------------------
\* longest entrant list
MaxHorses == 3

PastResult(r, n, l) == [ranking |-> r, field_size |-> n, last_3f |-> l]

Entrant(o, g, w, h) ==
  [odds_win |-> o, gate_number |-> g, weight_change |-> w, race_history |-> h]

\* Entrant shapes: odds 2.0 / 3.0 / 4.0 without form data; odds 1.0 (takes
\* part in the probabilities, not eligible for a bet); no odds; two entrants
\* with form data (odds 1.2 and 6.0); and the shapes with None in
\* race_history, odds_win, field_size and last_3f.
Pool ==
  { Entrant(Val(20), Absent, Absent, Absent),
    Entrant(Val(30), Absent, Absent, Absent),
    Entrant(Val(40), Absent, Absent, Absent),
    Entrant(Val(10), Val(2), Absent, Val(<<>>)),
    Entrant(Absent, Val(2), Val(3),
            Val(<<PastResult(Val(1), Val(5), Val(300))>>)),
    Entrant(Val(12), Val(7), Val(-4),
            Val(<<PastResult(Val(1), Val(5), Val(350))>>)),
    Entrant(Val(60), Null, Null,
            Val(<<PastResult(Null, Val(5), Val(0)),
                  PastResult(Absent, Absent, Absent),
                  PastResult(Val(5), Val(5), Val(370)),
                  PastResult(Val(1), Val(5), Val(330))>>)),
    Entrant(Val(10), Absent, Absent, Null),
    Entrant(Null, Absent, Absent, Absent),
    Entrant(Val(50), Absent, Absent,
            Val(<<PastResult(Val(1), Null, Absent)>>)),
    Entrant(Val(50), Absent, Absent,
            Val(<<PastResult(Absent, Absent, Null)>>)) }

\* total budgets of a request
Budgets == {-100, 0, 50, 100, 150, 300, 1000}

\* horse_id is the position in the list
WithIds(f) == [i \in DOMAIN f |-> ("horse_id" :> i) @@ f[i]]

Fields == UNION {[1..n -> Pool] : n \in 0..MaxHorses}

\* ------------------------------------------------------------------------
\* State
\* ------------------------------------------------------------------------
VARIABLES
  horses,     \* the entrant list of the request
  budget,     \* the budget of the request
  pc,         \* "idle", "scan" (inside the selection loop), "done",
              \* "raised", "ev_done", "ev_raised"
  valid,      \* optimize_budget: eligible entrants, sorted
  idx,        \* optimize_budget: next element of valid to examine
  selected,   \* optimize_budget: entrants admitted so far
  inv_sum,    \* optimize_budget: sum of 1/odds over selected
  result,     \* what optimize_budget returned
  ev_out,     \* what calculate_expected_values returned
  store,      \* entrant lists of several requests held in memory at once
  outs,       \* per list of store: the outcomes of the calls made on it
  response,   \* POST /optimize: the response body, once there is one
  cache,      \* horse_history._CACHE: horse_id -> parsed history
  fetches,    \* number of HTTP requests get_horse_history has sent
  last        \* the latest call of get_horse_history / clear_cache

vars ==
  <<horses, budget, pc, valid, idx, selected, inv_sum, result, ev_out,
    store, outs, response, cache, fetches, last>>

\* no request to the server handled yet, nothing cached
NoResponse == [status |-> "none"]

NoCall == [op |-> "none"]

ServerFresh ==
  /\ response = NoResponse
  /\ cache = <<>>
  /\ fetches = 0
  /\ last = NoCall

Init ==
  /\ \E f \in Fields : horses = WithIds(f)
  /\ budget \in Budgets
  /\ pc = "idle"
  /\ valid = <<>>
  /\ idx = 0
  /\ selected = <<>>
  /\ inv_sum = RInt(0)
  /\ result = EmptyResult(0)
  /\ ev_out = <<>>
  /\ store = <<>>
  /\ outs = <<>>
  /\ ServerFresh

\* A caller (GET /races/{id}/horses) runs calculate_expected_values(horses).
CalculateExpectedValues ==
  /\ pc = "idle"
  /\ LET r == CalculateExpectedValuesOf(horses)
     IN  /\ pc' = IF r.raised THEN "ev_raised" ELSE "ev_done"
         /\ ev_out' = r.out
         /\ horses' = r.inp
  /\ UNCHANGED <<budget, valid, idx, selected, inv_sum, result, store, outs,
               response, cache, fetches, last>>

\* optimize_budget, lines 31-52: early returns, the EV computation, the
\* eligibility filter and the sort; then the loop is entered.
OptimizeBudget ==
  /\ pc = "idle"
  /\ IF horses = <<>> \/ budget <= 0
     THEN /\ pc' = "done"
          /\ result' = EmptyResult(budget)
          /\ UNCHANGED <<horses, valid, idx, ev_out>>
     ELSE LET r == CalculateExpectedValuesOf(horses)
          IN  IF r.raised
              THEN /\ pc' = "raised"
                   /\ UNCHANGED <<horses, valid, idx, result, ev_out>>
              ELSE LET v == SelectSeq(r.out, Eligible)
                   IN  /\ horses' = r.inp
                       /\ ev_out' = r.out
                       /\ IF v = <<>>
                          THEN /\ pc' = "done"
                               /\ result' = EmptyResult(budget)
                               /\ UNCHANGED <<valid, idx>>
                          ELSE /\ pc' = "scan"
                               /\ valid' = SortByWinProb(v)
                               /\ idx' = 1
                               /\ UNCHANGED result
  /\ UNCHANGED <<budget, selected, inv_sum, store, outs,
               response, cache, fetches, last>>

\* one iteration of `for horse in valid` (lines 53-59)
ScanStep ==
  /\ pc = "scan"
  /\ idx <= Len(valid)
  /\ LET horse == valid[idx]
     IN  IF Admits(horse, Len(selected), inv_sum, budget)
         THEN /\ selected' = Append(selected, horse)
              /\ inv_sum' = RAdd(inv_sum, R(10, horse.odds_win.v))
         ELSE UNCHANGED <<selected, inv_sum>>
  /\ idx' = idx + 1
  /\ UNCHANGED <<horses, budget, pc, valid, result, ev_out, store, outs,
               response, cache, fetches, last>>

\* after the loop (lines 61-106): fallback, stakes, aggregates, return
Stake ==
  /\ pc = "scan"
  /\ idx > Len(valid)
  /\ selected' = FinalSelection(selected, valid)
  /\ result' = Allocation(selected', budget)
  /\ pc' = "done"
  /\ UNCHANGED <<horses, budget, valid, idx, inv_sum, ev_out, store, outs,
               response, cache, fetches, last>>

Next == CalculateExpectedValues \/ OptimizeBudget \/ ScanStep \/ Stake

Spec == Init /\ [][Next]_vars

\* ------------------------------------------------------------------------
\* Several entrant lists in memory, calculate_expected_values called on
\* them in any order (the core keeps no state between calls)
\* ------------------------------------------------------------------------
\* lists held at once
NFields == 2

\* calls per list
MaxCalls == 2

\* the lists: empty, one entrant, two and three entrants with and without
\* form data and odds, and one on which the call raises
PureFields ==
  { <<>>,
    <<Entrant(Val(20), Absent, Absent, Absent)>>,
    <<Entrant(Val(60), Null, Null,
              Val(<<PastResult(Null, Val(5), Val(0)),
                    PastResult(Val(5), Val(5), Val(370))>>)),
      Entrant(Val(20), Absent, Absent, Absent)>>,
    <<Entrant(Val(12), Val(7), Val(-4),
              Val(<<PastResult(Val(1), Val(5), Val(350))>>)),
      Entrant(Absent, Val(2), Val(3),
              Val(<<PastResult(Val(1), Val(5), Val(300))>>)),
      Entrant(Val(60), Absent, Absent,
              Val(<<PastResult(Val(5), Val(5), Val(370))>>))>>,
    <<Entrant(Val(30), Absent, Absent, Absent),
      Entrant(Val(10), Absent, Absent, Null)>> }

InitPure ==
  /\ \E fs \in [1..NFields -> PureFields] :
       store = [f \in 1..NFields |-> WithIds(fs[f])]
  /\ outs = [f \in 1..NFields |-> <<>>]
  /\ ServerFresh
  /\ horses = <<>>
  /\ budget = 0
  /\ pc = "idle"
  /\ valid = <<>>
  /\ idx = 0
  /\ selected = <<>>
  /\ inv_sum = RInt(0)
  /\ result = EmptyResult(0)
  /\ ev_out = <<>>

\* one call calculate_expected_values(store[f])
CallEV(f) ==
  /\ Len(outs[f]) < MaxCalls
  /\ LET r == CalculateExpectedValuesOf(store[f])
     IN  /\ outs' = [outs EXCEPT ![f] =
                       Append(@, [raised |-> r.raised, out |-> r.out])]
         /\ store' = [store EXCEPT ![f] = r.inp]
  /\ UNCHANGED <<horses, budget, pc, valid, idx, selected, inv_sum, result,
                 ev_out, response, cache, fetches, last>>

NextPure == \E f \in 1..NFields : CallEV(f)

SpecPure == InitPure /\ [][NextPure]_vars

\* ------------------------------------------------------------------------
\* The Kelly allocator (the alternate strategy; its code is not among the
\* source files, so it follows the design text, section 4.3)
\* ------------------------------------------------------------------------
\* f = (b*p - (1-p)) / b with b = odds_win - 1; 0 when b <= 0; never negative
KellyFraction(h) ==
  LET odds == GetOr(h.odds_win, 0)
      b    == R(odds - 10, 10)
      p    == h.win_probability
  IN  IF odds - 10 <= 0 THEN RInt(0)
      ELSE RMax(RInt(0),
                RDiv(RSub(RMul(b, p), RSub(RInt(1), p)), b))

\* half_kelly = 0.5 * f
HalfKelly(h) == RMul(R(1, 2), KellyFraction(h))

\* mutant of KellyStake: the stake rounded up
KellyStakeCeil(b, share) ==
  LET qr == MulDivQR(Digits(b), share[1], share[2], 0, 0)
  IN  IF qr[2] = 0 THEN qr[1] ELSE qr[1] + 1

\* recommended_bet = floor(budget * share), budget > 0
KellyStake(b, share) == MulDivQR(Digits(b), share[1], share[2], 0, 0)[1]

\* one entry per entrant; entrants with no positive half_kelly stake 0
KellyBets(hs, b) ==
  LET halves == [i \in 1..Len(hs) |-> HalfKelly(hs[i])]
      total  == RSum(halves)
  IN  [i \in 1..Len(hs) |->
         LET bet == IF RLt(RInt(0), halves[i])
                    THEN KellyStake(b, RDiv(halves[i], total))
                    ELSE 0
         IN  [horse_id        |-> hs[i].horse_id,
              kelly_fraction  |-> halves[i],
              recommended_bet |-> bet,
              expected_return |->
                RMul(R(bet * GetOr(hs[i].odds_win, 0), 10),
                     hs[i].win_probability)]]

\* allocate(entrants_with_probability, budget)
KellyAllocation(hs, b) ==
  IF hs = <<>> \/ b <= 0
  THEN [bets |-> <<>>, total_bet |-> 0, remaining_budget |-> b]
  ELSE LET bets      == KellyBets(hs, b)
           total_bet == SumBets(bets)
       IN  [bets |-> bets, total_bet |-> total_bet,
            remaining_budget |-> b - total_bet]

\* Entrant shapes for the Kelly allocator: odds 2.0 / 3.0 / 4.0 without form
\* data, odds 4.0 in an inner gate, odds 1.0, no odds, and a shape on which
\* the probability computation raises.
KellyPool ==
  { Entrant(Val(20), Absent, Absent, Absent),
    Entrant(Val(30), Absent, Absent, Absent),
    Entrant(Val(40), Absent, Absent, Absent),
    Entrant(Val(40), Val(2), Absent, Absent),
    Entrant(Val(10), Absent, Absent, Absent),
    Entrant(Absent, Absent, Absent, Absent),
    Entrant(Val(10), Absent, Absent, Null) }

KellyFields == UNION {[1..n -> KellyPool] : n \in 0..MaxHorses}

InitKelly ==
  /\ \E f \in KellyFields : horses = WithIds(f)
  /\ budget \in Budgets
  /\ pc = "idle"
  /\ valid = <<>>
  /\ idx = 0
  /\ selected = <<>>
  /\ inv_sum = RInt(0)
  /\ result = EmptyResult(0)
  /\ ev_out = <<>>
  /\ store = <<>>
  /\ outs = <<>>
  /\ ServerFresh

\* the probabilities are computed, then the Kelly stakes
KellyAllocate ==
  /\ pc = "idle"
  /\ LET r == CalculateExpectedValuesOf(horses)
     IN  IF r.raised
         THEN /\ pc' = "raised"
              /\ UNCHANGED <<ev_out, result>>
         ELSE /\ pc' = "kelly_done"
              /\ ev_out' = r.out
              /\ result' = KellyAllocation(r.out, budget)
  /\ UNCHANGED <<horses, budget, valid, idx, selected, inv_sum, store, outs,
               response, cache, fetches, last>>

NextKelly == KellyAllocate

SpecKelly == InitKelly /\ [][NextKelly]_vars

\* ------------------------------------------------------------------------
\* The form factors of one entrant (Step 1 of calculate_expected_values),
\* over gate numbers, weight changes and histories
\* ------------------------------------------------------------------------
\* gate_number of the entrant scored: missing, None, 0 and both sides of
\* every threshold of _gate_factor
FactorGates ==
  {Absent, Null} \cup {Val(g) : g \in {-1, 0, 1, 3, 4, 6, 7, 8, 18}}

\* weight_change: missing, None and every delta from -8 to +14
FactorWeights == {Absent, Null} \cup {Val(d) : d \in -8..14}

\* a did-not-finish record: no ranking, no closing time
DidNotFinish == PastResult(Null, Val(5), Val(0))

\* race_history, most recent first: missing, empty, a win, a last place, a
\* ranking beyond field_size, a did-not-finish, fields of one and of zero, a
\* did-not-finish among the latest three with an older finish behind, three
\* did-not-finish with an older win behind, a very slow and a very fast
\* closing time, and None (on which the computation raises)
FactorHistories ==
  { Absent,
    Null,
    Val(<<>>),
    Val(<<PastResult(Val(1), Val(5), Val(330))>>),
    Val(<<PastResult(Val(5), Val(5), Val(370))>>),
    Val(<<PastResult(Val(50), Val(5), Val(350))>>),
    Val(<<DidNotFinish>>),
    Val(<<PastResult(Val(1), Val(1), Val(340))>>),
    Val(<<PastResult(Val(1), Val(0), Absent)>>),
    Val(<<PastResult(Val(1), Val(5), Val(330)), DidNotFinish,
          PastResult(Val(5), Val(5), Val(370)),
          PastResult(Val(1), Val(5), Val(340))>>),
    Val(<<DidNotFinish, DidNotFinish, DidNotFinish,
          PastResult(Val(1), Val(5), Val(330))>>),
    Val(<<PastResult(Val(3), Val(5), Val(500))>>),
    Val(<<PastResult(Val(2), Val(5), Val(200))>>) }

\* the rest of the field: nobody; an entrant with odds and a closing time;
\* an entrant without odds but with a closing time; an entrant with odds and
\* no history; the second and the third together
FactorCompanions ==
  { <<>>,
    <<Entrant(Val(20), Absent, Absent,
              Val(<<PastResult(Val(2), Val(5), Val(340))>>))>>,
    <<Entrant(Absent, Val(2), Val(3),
              Val(<<PastResult(Val(1), Val(5), Val(300))>>))>>,
    <<Entrant(Val(40), Absent, Absent, Absent)>>,
    <<Entrant(Val(20), Absent, Absent,
              Val(<<PastResult(Val(2), Val(5), Val(340))>>)),
      Entrant(Absent, Val(2), Val(3),
              Val(<<PastResult(Val(1), Val(5), Val(300))>>))>> }

InitFactors ==
  /\ \E g \in FactorGates, w \in FactorWeights, h \in FactorHistories,
        c \in FactorCompanions :
       horses = WithIds(<<Entrant(Val(30), g, w, h)>> \o c)
  /\ budget = 0
  /\ pc = "idle"
  /\ valid = <<>>
  /\ idx = 0
  /\ selected = <<>>
  /\ inv_sum = RInt(0)
  /\ result = EmptyResult(0)
  /\ ev_out = <<>>
  /\ store = <<>>
  /\ outs = <<>>
  /\ ServerFresh

\* calculate_expected_values(horses), keeping what lines 77-111 compute for
\* the first entrant: the four factors, form_score, and the field totals
ScoreForm ==
  /\ pc = "idle"
  /\ LET r == CalculateExpectedValuesOf(horses)
         horse         == horses[1]
         gate          == OrElse(horse.gate_number, 0)
         wc            == horse.weight_change
         history       == OrElse(horse.race_history, <<>>)
         global_3f_avg == Global3fAvg(horses)
     IN  IF r.raised
         THEN /\ pc' = "raised"
              /\ UNCHANGED <<result, ev_out>>
         ELSE /\ pc' = "scored"
              /\ ev_out' = r.out
              /\ result' =
                   [gate_factor          |-> GateFactor(gate),
                    weight_change_factor |-> WeightChangeFactor(wc),
                    ranking_factor       |-> RankingFactor(history),
                    last3f_factor        |-> Last3fFactor(history, global_3f_avg),
                    global_3f_avg        |-> global_3f_avg,
                    form_score           |-> Work(horses)[1].form_score,
                    total_form           |-> TotalForm(Work(horses))]
  /\ UNCHANGED <<horses, budget, valid, idx, selected, inv_sum, store, outs,
               response, cache, fetches, last>>

NextFactors == ScoreForm

SpecFactors == InitFactors /\ [][NextFactors]_vars

\* ------------------------------------------------------------------------
\* main.py : POST /optimize (optimize_bets)
\* ------------------------------------------------------------------------
\* What get_horses_with_odds returns for an entrant: odds_win 0.0 until the
\* odds are known, a gate number, a weight change or None, no race_history.
HandlerPool ==
  { Entrant(Val(0), Val(1), Null, Absent),
    Entrant(Val(20), Val(2), Val(4), Absent),
    Entrant(Val(40), Val(7), Null, Absent),
    Entrant(Val(12), Val(0), Val(-4), Absent) }

HandlerFields == UNION {[1..n -> HandlerPool] : n \in 0..2}

\* the request has arrived; horses is what the odds collaborator will return
InitHandler ==
  /\ \E f \in HandlerFields : horses = WithIds(f)
  /\ budget \in Budgets
  /\ pc = "request"
  /\ valid = <<>>
  /\ idx = 0
  /\ selected = <<>>
  /\ inv_sum = RInt(0)
  /\ result = EmptyResult(0)
  /\ ev_out = <<>>
  /\ store = <<>>
  /\ outs = <<>>
  /\ ServerFresh

\* lines 99-102: 404 for an empty list, else the call of optimize_budget
OptimizeBets ==
  /\ pc = "request"
  /\ pc' = IF horses = <<>> THEN "http_404" ELSE "idle"
  /\ UNCHANGED <<horses, budget, valid, idx, selected, inv_sum, result,
                 ev_out, store, outs, response, cache, fetches, last>>

\* the keys of the dict optimize_budget returns, in insertion order
ResultKeys ==
  <<"bets", "total_bet", "guaranteed_return", "remaining_budget", "coverage">>

\* `for b in bets` with bets a dict: b runs over the keys, which are strings
IterDict(d) == [i \in 1..Len(ResultKeys) |-> [type |-> "str", v |-> ResultKeys[i]]]

\* b["expected_return"]: a str index into a str raises TypeError
SubscriptRaises(b) == b.type = "str"

RECURSIVE SumExpected(_)
SumExpected(items) ==
  IF items = <<>> THEN 0
  ELSE items[1].v.expected_return + SumExpected(Tail(items))

\* lines 103-109, after optimize_budget has returned its dict into `bets`:
\* the sum over the elements of `bets`, then the response
OptimizeBetsRespond ==
  /\ pc = "done"
  /\ LET items == IterDict(result)
     IN  IF \E i \in 1..Len(items) : SubscriptRaises(items[i])
         THEN /\ pc' = "handler_raised"
              /\ UNCHANGED response
         ELSE /\ pc' = "responded"
              /\ response' = [status          |-> "ok",
                              budget          |-> budget,
                              bets            |-> result,
                              expected_return |-> SumExpected(items)]
  /\ UNCHANGED <<horses, budget, valid, idx, selected, inv_sum, result,
                 ev_out, store, outs, cache, fetches, last>>

NextHandler ==
  OptimizeBets \/ OptimizeBudget \/ ScanStep \/ Stake \/ OptimizeBetsRespond

SpecHandler == InitHandler /\ [][NextHandler]_vars

\* ------------------------------------------------------------------------
\* scrapers/horse_history.py : get_horse_history, clear_cache, _CACHE
\* ------------------------------------------------------------------------
\* HTTP requests one run may send
MaxFetches == 3

\* horse ids asked for; "" is the empty id
HorseIds == {"", "h1", "h2"}

\* n_races of a call
NRaces == {-1, 0, 1, 2, 5}

\* one dict of _parse_row
HistoryRow(r, n, l, w) ==
  [ranking |-> r, field_size |-> n, last_3f |-> l, weight_change |-> w]

\* what _parse_history can return for a page: no rows, one row, three rows
\* (the page of a horse may differ from one request to the next)
SiteHistories ==
  { <<>>,
    <<HistoryRow(Val(1), 5, 330, Val(2))>>,
    <<HistoryRow(Null, 8, 0, Null),
      HistoryRow(Val(3), 8, 345, Val(-4)),
      HistoryRow(Val(7), 12, 361, Val(0))>> }

\* How lines 43-54 can end: an exception (in requests.get, before there is a
\* response, or later, in the decoding or the parsing), a response with a
\* status other than 200, or status 200 and a parsed history.
FetchOutcomes ==
  {[raised |-> TRUE, status |-> s, history |-> <<>>] : s \in {0, 200}}
    \cup {[raised |-> FALSE, status |-> s, history |-> <<>>] : s \in {404, 503}}
    \cup {[raised |-> FALSE, status |-> 200, history |-> h] : h \in SiteHistories}

\* history[:n_races]
PySlice(s, n) ==
  IF n >= Len(s) THEN s
  ELSE IF n >= 0 THEN SubSeq(s, 1, n)
  ELSE IF Len(s) + n > 0 THEN SubSeq(s, 1, Len(s) + n)
  ELSE <<>>

\* the fetch got as far as line 55
Stored(o) == ~o.raised /\ o.status = 200

\* mutant of CacheAfterFetch: a failed fetch is cached as an empty history
CacheAfterFetchAlways(c, horse_id, o) ==
  (horse_id :> (IF Stored(o) THEN o.history ELSE <<>>)) @@ c

\* _CACHE after lines 42-60: written at line 55 only
CacheAfterFetch(c, horse_id, o) ==
  IF Stored(o) THEN (horse_id :> o.history) @@ c ELSE c

\* get_horse_history(horse_id, n_races)
GetHorseHistory(horse_id, n_races) ==
  IF horse_id = ""
  THEN /\ last' = [op |-> "get", horse_id |-> horse_id, n_races |-> n_races,
                   requested |-> FALSE, ret |-> <<>>]
       /\ UNCHANGED <<cache, fetches>>
  ELSE IF horse_id \in DOMAIN cache
  THEN /\ last' = [op |-> "get", horse_id |-> horse_id, n_races |-> n_races,
                   requested |-> FALSE,
                   ret |-> PySlice(cache[horse_id], n_races)]
       /\ UNCHANGED <<cache, fetches>>
  ELSE /\ fetches < MaxFetches
       /\ fetches' = fetches + 1
       /\ \E o \in FetchOutcomes :
            /\ cache' = CacheAfterFetch(cache, horse_id, o)
            /\ last' = [op |-> "get", horse_id |-> horse_id,
                        n_races |-> n_races, requested |-> TRUE,
                        raised |-> o.raised, status |-> o.status,
                        ret |-> IF Stored(o)
                                THEN PySlice(o.history, n_races)
                                ELSE <<>>]

\* clear_cache()
ClearCache ==
  /\ cache' = <<>>
  /\ last' = [op |-> "clear"]
  /\ UNCHANGED fetches

InitCache ==
  /\ horses = <<>>
  /\ budget = 0
  /\ pc = "idle"
  /\ valid = <<>>
  /\ idx = 0
  /\ selected = <<>>
  /\ inv_sum = RInt(0)
  /\ result = EmptyResult(0)
  /\ ev_out = <<>>
  /\ store = <<>>
  /\ outs = <<>>
  /\ ServerFresh

CallGetHorseHistory ==
  /\ \E h \in HorseIds, n \in NRaces : GetHorseHistory(h, n)
  /\ UNCHANGED <<horses, budget, pc, valid, idx, selected, inv_sum, result,
                 ev_out, store, outs, response>>

CallClearCache ==
  /\ ClearCache
  /\ UNCHANGED <<horses, budget, pc, valid, idx, selected, inv_sum, result,
                 ev_out, store, outs, response>>

NextCache == CallGetHorseHistory \/ CallClearCache

SpecCache == InitCache /\ [][NextCache]_vars

\* ------------------------------------------------------------------------
\* Properties
\* ------------------------------------------------------------------------
AnyEligible == \E i \in 1..Len(horses) : Eligible(horses[i])

AnyValid == \E i \in 1..Len(horses) : IsValid(horses[i])

\* the None values the docstring of calculate_expected_values allows
\* (gate_number, weight_change, race_history) and no others
DocumentedShape ==
  \A i \in 1..Len(horses) :
    /\ ~IsNone(horses[i].odds_win)
    /\ IsVal(horses[i].race_history) =>
         \A j \in 1..Len(horses[i].race_history.v) :
           /\ ~IsNone(horses[i].race_history.v[j].field_size)
           /\ ~IsNone(horses[i].race_history.v[j].last_3f)

\* the field of the end-to-end scenario: odds 2.0, 3.0, 4.0, no form data
Scenario ==
  WithIds(<<Entrant(Val(20), Absent, Absent, Absent),
            Entrant(Val(30), Absent, Absent, Absent),
            Entrant(Val(40), Absent, Absent, Absent)>>)

\* round(x, nd) for a rational of either sign
RoundSigned(x, nd) ==
  IF x[1] < 0 THEN -RoundTo(RNeg(x), nd) ELSE RoundTo(x, nd)

\* C1: whenever optimize_budget returns for budget > 0 and a field with an
\* entrant of odds_win > 1.0, every bet's if_wins_return is
\* round(recommended_bet * odds_win) and is >= budget, and so is
\* guaranteed_return; after the greedy scan and after the fallback alike.
C1_GuaranteedReturn ==
  (pc = "done" /\ budget > 0 /\ AnyEligible) =>
    /\ result.bets # <<>>
    /\ result.guaranteed_return >= budget
    /\ \A j \in 1..Len(result.bets) :
         LET b == result.bets[j]
             x == b.recommended_bet * b.odds_win
         IN  /\ b.if_wins_return = RoundQR(x \div 10, x % 10, 10)
             /\ b.if_wins_return >= budget

\* C1 witness: a return through the fallback (the scan admitted nobody)
C1_Witness ==
  /\ pc = "done" /\ budget > 0 /\ AnyEligible
  /\ inv_sum = RInt(0)
  /\ Len(result.bets) = 1
  /\ Len(valid) > 1

\* C2 as claimed: a returned allocation never stakes more than the budget
\* (stated for the positive budgets; a budget <= 0 stakes nothing).
C2_AsClaimed ==
  (pc = "done" /\ budget > 0) => result.total_bet <= budget

\* C3 as claimed: for budget > 0 and an eligible entrant, remaining_budget
\* is budget - total_bet and is >= 0.
C3_AsClaimed ==
  (pc = "done" /\ budget > 0 /\ AnyEligible) =>
    /\ result.remaining_budget = budget - result.total_bet
    /\ result.remaining_budget >= 0

\* C4: in the list calculate_expected_values returns for a field with an
\* entrant of odds_win > 0, the win_probability of the entrants with
\* odds_win > 0 sum to exactly 1.
C4_ProbabilitiesSumToOne ==
  (pc = "ev_done" /\ AnyValid) =>
    LET v == SelectSeq(ev_out, IsValid)
    IN  RSum([i \in 1..Len(v) |-> v[i].win_probability]) = RInt(1)

\* C4 witness: a returned field with a valid entrant with form data, a
\* valid entrant without, and an invalid entrant
C4_Witness ==
  /\ pc = "ev_done"
  /\ \E i, j, k \in 1..Len(horses) :
       /\ IsValid(horses[i]) /\ HasAvg(horses[i])
       /\ IsValid(horses[j]) /\ horses[j].race_history = Absent
       /\ ~IsValid(horses[k])

C6_AsClaimed ==
  (pc \in {"done", "raised"} /\ DocumentedShape) =>
    /\ pc = "done"
    /\ IF horses = <<>> \/ budget <= 0 \/ ~AnyEligible
       THEN result = EmptyResult(budget)
       ELSE result.bets # <<>>

\* C7 as claimed: neither calculate_expected_values nor optimize_budget ends
\* with an exception, whichever of the optional values are missing or None.
C7_AsClaimed == pc \notin {"raised", "ev_raised"}

C9_Scenario ==
  (horses = Scenario /\ budget = 1000) =>
    /\ (pc = "scan" /\ idx = 2) => selected = <<valid[1]>>
    /\ (pc = "scan" /\ idx = 3) => selected = <<valid[1]>>
    /\ (pc = "scan" /\ idx = 4) => selected = <<valid[1], valid[3]>>
    /\ pc = "scan" => [i \in 1..3 |-> valid[i].horse_id] = <<1, 2, 3>>
    /\ pc = "done" =>
         /\ [i \in 1..Len(result.bets) |-> result.bets[i].horse_id] = <<1, 3>>
         /\ [i \in 1..Len(result.bets) |-> result.bets[i].recommended_bet]
              = <<500, 300>>
         /\ [i \in 1..Len(result.bets) |-> result.bets[i].if_wins_return]
              = <<1000, 1200>>
         /\ result.total_bet = 800
         /\ result.remaining_budget = 200
         /\ result.guaranteed_return = 1000
         /\ result.coverage = 5705

\* C9 witness: the scenario has returned
C9_Witness == horses = Scenario /\ budget = 1000 /\ pc = "done"

\* win_probability and expected_value of the scenario, to four decimals
ScenarioWp4 == [i \in 1..3 |-> RoundTo(ev_out[i].win_probability, 4)]

ScenarioEv4 == [i \in 1..3 |-> RoundSigned(ev_out[i].expected_value, 4)]

ScenarioEvIsOddsTimesP ==
  \A i \in 1..3 :
    ev_out[i].expected_value =
      RSub(RMul(R(horses[i].odds_win.v, 10), ev_out[i].win_probability),
           RInt(1))

\* C10 as claimed: the scenario field gets win_probability 0.4103, 0.3179,
\* 0.2718 and expected_value -0.1795, -0.0464, +0.0872.
C10_AsClaimed ==
  (pc = "ev_done" /\ horses = Scenario) =>
    /\ ScenarioWp4 = <<4103, 3179, 2718>>
    /\ ScenarioEv4 = <<-1795, -464, 872>>
    /\ ScenarioEvIsOddsTimesP

\* C10 amended: the scenario field gets win_probability 0.4103, 0.3179,
\* 0.2718 and expected_value -0.1795, -0.0462, +0.0872, each expected_value
\* being odds_win * win_probability - 1: positive for the entrant with the
\* highest odds, negative for the two others.
C10_Amended ==
  (pc = "ev_done" /\ horses = Scenario) =>
    /\ ScenarioWp4 = <<4103, 3179, 2718>>
    /\ ScenarioEv4 = <<-1795, -462, 872>>
    /\ ScenarioEvIsOddsTimesP
    /\ ev_out[1].expected_value[1] < 0
    /\ ev_out[2].expected_value[1] < 0
    /\ ev_out[3].expected_value[1] > 0

\* C10 witness: calculate_expected_values has returned for the scenario
C10_Witness == pc = "ev_done" /\ horses = Scenario /\ Len(ev_out) = 3


AdmittedBefore(n) ==
  SelectSeq(Take(valid, n - 1),
            LAMBDA h : \E j \in 1..Len(selected) :
                         selected[j].horse_id = h.horse_id)

\* inv_sum + 1/odds_win + (k + 1) * 100 / budget <= 1.0 for the candidate at
\* the scan position, in whole numbers (inv_sum = n/d, odds in tenths)
C12_Condition ==
  LET o == valid[idx].odds_win.v
      k == Len(selected)
      n == inv_sum[1]
      d == inv_sum[2]
  IN  n * o * budget + 10 * d * budget + (k + 1) * 100 * d * o
        <= d * o * budget

\* C12: every step of the scan examines the next entrant of the sorted list
\* and admits it exactly when inv_sum + 1/odds_win + (k+1)*100/budget <= 1.0;
\* a rejection changes neither the selection nor inv_sum; the scan goes on to
\* the end of the list whatever was rejected, and the selection is what was
\* admitted, in scan order.
C12_GreedyScan ==
  /\ [][(pc = "scan" /\ idx <= Len(valid)) =>
          /\ idx' = idx + 1
          /\ valid' = valid
          /\ C12_Condition =>
               /\ selected' = Append(selected, valid[idx])
               /\ inv_sum' = RAdd(inv_sum, R(10, valid[idx].odds_win.v))
          /\ ~C12_Condition =>
               /\ selected' = selected
               /\ inv_sum' = inv_sum]_vars
  /\ [](pc = "scan" =>
          /\ idx \in 1..(Len(valid) + 1)
          /\ selected = AdmittedBefore(idx))
  /\ [][(pc = "scan" /\ pc' = "done") => idx = Len(valid) + 1]_vars

\* C12 witness: the scan is over, an entrant was rejected and a later one
\* admitted
C12_Witness ==
  /\ pc = "scan"
  /\ idx = Len(valid) + 1
  /\ \E i, j \in 1..Len(valid) :
       /\ i < j
       /\ \A s \in 1..Len(selected) : selected[s].horse_id # valid[i].horse_id
       /\ \E s \in 1..Len(selected) : selected[s].horse_id = valid[j].horse_id


\* C13: while the scan runs, budget * (1 - inv_sum) >= k * 100 for the k
\* entrants admitted so far; and when the scan admitted somebody, the result
\* has total_bet <= budget and recommended_bet * odds_win >= total_bet for
\* every bet.
C13_RoundingHeadroom ==
  /\ pc = "scan" =>
       RLe(RInt(Len(selected) * 100),
           RMul(RInt(budget), RSub(RInt(1), inv_sum)))
  /\ (pc = "done" /\ RLt(RInt(0), inv_sum)) =>
       /\ result.total_bet <= budget
       /\ result.total_bet = SumBets(result.bets)
       /\ \A j \in 1..Len(result.bets) :
            result.bets[j].recommended_bet * result.bets[j].odds_win
              >= 10 * result.total_bet

\* C13 witness: two or more entrants admitted, and a stake that was rounded
\* up to the next multiple of 100
C13_Witness ==
  /\ pc = "done"
  /\ RLt(RInt(0), inv_sum)
  /\ Len(result.bets) >= 2
  /\ \E j \in 1..Len(result.bets) :
       result.bets[j].recommended_bet * result.bets[j].odds_win > 10 * budget


\* odds_win > 1.0 (odds in tenths), absent or null odds counting as 0
OddsAboveOne(h) == IsVal(h.odds_win) /\ h.odds_win.v > 10

\* the entrant at position i of the input has odds_win > 1.0 and the highest
\* win_probability of those that do, and is the earliest such entrant
IsTopEligible(ev, i) ==
  /\ OddsAboveOne(ev[i])
  /\ \A j \in 1..Len(ev) :
       OddsAboveOne(ev[j]) =>
         /\ RLe(ev[j].win_probability, ev[i].win_probability)
         /\ ev[j].win_probability = ev[i].win_probability => i <= j

BetIds == [j \in 1..Len(result.bets) |-> result.bets[j].horse_id]

\* C14: when the scan admitted nobody, the result has exactly one bet, on the
\* entrant with odds_win > 1.0 that has the highest win_probability, the
\* earliest in input order among equals; when the scan admitted somebody,
\* the bets are on the admitted entrants and nobody else.
C14_ForceSelect ==
  /\ [][(pc = "scan" /\ pc' = "done") =>
          /\ selected # <<>> => selected' = selected
          /\ selected = <<>> => Len(selected') = 1
          /\ BetIds' = [j \in 1..Len(selected') |-> selected'[j].horse_id]]_vars
  /\ []((pc = "done" /\ valid # <<>> /\ inv_sum = RInt(0)) =>
          /\ Len(result.bets) = 1
          /\ ev_out = EVResults(horses)
          /\ IsTopEligible(ev_out, result.bets[1].horse_id))

\* C14 witness: the fallback was taken in a field whose two most probable
\* eligible entrants are equal, and the first of them in input order, which
\* is not the first entrant of the input, got the bet
C14_Witness ==
  /\ pc = "done"
  /\ inv_sum = RInt(0)
  /\ Len(valid) >= 2
  /\ valid[1].win_probability = valid[2].win_probability
  /\ Len(result.bets) = 1
  /\ result.bets[1].horse_id = valid[1].horse_id
  /\ result.bets[1].horse_id > 1

\* C15: the list the scan examines holds exactly the entrants with
\* odds_win > 1.0, in descending win_probability as calculate_expected_values
\* gives it, equal ones in input order; the bets are in the order of that
\* list.
C15_StableOrder ==
  (pc \in {"scan", "done"} /\ valid # <<>>) =>
    LET ev == ev_out
    IN  /\ Len(ev) = Len(horses)
        /\ {valid[i].horse_id : i \in 1..Len(valid)}
             = {i \in 1..Len(ev) : OddsAboveOne(ev[i])}
        /\ \A i \in 1..Len(valid) :
             valid[i].win_probability = ev[valid[i].horse_id].win_probability
        /\ \A i, j \in 1..Len(valid) :
             i < j =>
               /\ RLe(valid[j].win_probability, valid[i].win_probability)
               /\ valid[i].horse_id # valid[j].horse_id
               /\ valid[i].win_probability = valid[j].win_probability
                    => valid[i].horse_id < valid[j].horse_id
        /\ pc = "done" =>
             \A a, b \in 1..Len(result.bets) :
               a < b =>
                 \E i, j \in 1..Len(valid) :
                   /\ i < j
                   /\ valid[i].horse_id = result.bets[a].horse_id
                   /\ valid[j].horse_id = result.bets[b].horse_id

\* C15 witness: two bets, the scan order differs from the input order, and
\* two equal entrants were both examined
C15_Witness ==
  /\ pc = "done"
  /\ Len(result.bets) >= 2
  /\ result.bets[1].horse_id > result.bets[2].horse_id
  /\ \E i \in 1..(Len(valid) - 1) :
       valid[i].win_probability = valid[i + 1].win_probability

\* C16: no bet is ever placed on an entrant whose odds_win is absent or
\* <= 1.0, after the scan and after the fallback alike, although
\* calculate_expected_values gives an entrant with 0 < odds_win <= 1.0 a
\* win_probability above 0.
C16_NoBetAtOddsOne ==
  /\ pc \in {"scan", "done"} =>
       /\ \A i \in 1..Len(valid) : OddsAboveOne(horses[valid[i].horse_id])
       /\ \A i \in 1..Len(selected) :
            OddsAboveOne(horses[selected[i].horse_id])
       /\ \A j \in 1..Len(result.bets) :
            /\ OddsAboveOne(horses[result.bets[j].horse_id])
            /\ result.bets[j].odds_win > 10
  /\ pc = "ev_done" =>
       \A i \in 1..Len(ev_out) :
         (IsVal(horses[i].odds_win) /\ horses[i].odds_win.v \in 1..10)
           => RLt(RInt(0), ev_out[i].win_probability)

\* C16 witness: the fallback placed its bet although an entrant with
\* odds_win = 1.0 is in the field
C16_Witness ==
  /\ pc = "done"
  /\ inv_sum = RInt(0)
  /\ Len(result.bets) = 1
  /\ \E i \in 1..Len(horses) : horses[i].odds_win = Val(10)


\* the entrant scored and its history (None or missing: no records)
Scored == horses[1]

ScoredHistory ==
  IF IsVal(Scored.race_history) THEN Scored.race_history.v ELSE <<>>

\* the factor the weight-change table gives for a delta
WeightTable(d) ==
  IF d \in 2..8 THEN <<26, 25>>
  ELSE IF d \in -2..1 THEN <<1, 1>>
  ELSE IF d \in -6..-3 \/ d \in 9..12 THEN <<19, 20>>
  ELSE <<9, 10>>

\* C17: the weight-change factor is 1.00 without a delta, 1.04 for a delta
\* in [+2,+8], 1.00 in [-2,+2), 0.95 in [-6,-2) and (+8,+12], 0.90 for every
\* other delta; -6, -2, +2, +8, +12 give 0.95, 1.00, 1.04, 1.04, 0.95.
C17_WeightChangeTable ==
  pc = "scored" =>
    LET wc == Scored.weight_change
        f  == result.weight_change_factor
    IN  /\ ~IsVal(wc) => f = <<1, 1>>
        /\ IsVal(wc) => f = WeightTable(wc.v)
        /\ wc = Val(-6) => f = <<19, 20>>
        /\ wc = Val(-2) => f = <<1, 1>>
        /\ wc = Val(2) => f = <<26, 25>>
        /\ wc = Val(8) => f = <<26, 25>>
        /\ wc = Val(12) => f = <<19, 20>>

\* C17 witness: the delta +12, on the edge between 0.95 and 0.90
C17_Witness ==
  /\ pc = "scored"
  /\ Scored.weight_change = Val(12)
  /\ result.weight_change_factor = <<19, 20>>

\* ranking present and field_size > 1
Qualifying(r) ==
  /\ r.ranking.k = "val"
  /\ r.field_size.k = "val"
  /\ r.field_size.v > 1

\* 1.0 + (avg - 0.5) * 0.40 clamped to [0.80, 1.20], for the finish scores
\* (field_size - ranking) / (field_size - 1) of the records given; 1.00 for
\* no records
FactorOfFinishes(records) ==
  IF records = <<>> THEN <<1, 1>>
  ELSE LET score(r) == R(r.field_size.v - r.ranking.v, r.field_size.v - 1)
           avg  == RDiv(RSum([j \in 1..Len(records) |-> score(records[j])]),
                        RInt(Len(records)))
           mult == RAdd(RInt(1), RMul(RSub(avg, R(1, 2)), R(2, 5)))
       IN  IF RLt(mult, R(4, 5)) THEN R(4, 5)
           ELSE IF RLt(R(6, 5), mult) THEN R(6, 5)
           ELSE mult

\* C18 as claimed: the ranking factor is taken over the (up to) three most
\* recent qualifying records, so that a non-qualifying record among the
\* latest races is made up for by an older qualifying one.
C18_AsClaimed ==
  pc = "scored" =>
    result.ranking_factor =
      FactorOfFinishes(Take(SelectSeq(ScoredHistory, Qualifying), 3))

\* C18 amended: the ranking factor is taken over the qualifying records
\* among the three most recent records (a non-qualifying record among them
\* is not made up for by an older one); it lies in [0.80, 1.20] and is 1.00
\* when none of the three most recent records qualifies.
C18_Amended ==
  pc = "scored" =>
    LET latest == SelectSeq(Take(ScoredHistory, 3), Qualifying)
    IN  /\ result.ranking_factor = FactorOfFinishes(latest)
        /\ RLe(R(4, 5), result.ranking_factor)
        /\ RLe(result.ranking_factor, R(6, 5))
        /\ latest = <<>> => result.ranking_factor = <<1, 1>>

\* C18 witness: a did-not-finish among the three most recent records, a
\* qualifying fourth record, and a factor that leaves the fourth out
C18_Witness ==
  /\ pc = "scored"
  /\ Len(ScoredHistory) = 4
  /\ \E j \in 1..3 : ~Qualifying(ScoredHistory[j])
  /\ Qualifying(ScoredHistory[4])
  /\ result.ranking_factor = FactorOfFinishes(
       SelectSeq(Take(ScoredHistory, 3), Qualifying))
  /\ result.ranking_factor #
       FactorOfFinishes(Take(SelectSeq(ScoredHistory, Qualifying), 3))

\* average of the positive last_3f among the three most recent records of an
\* entrant, in seconds; 0 without any
ClosingAvg(h) ==
  LET hist == IF h.race_history.k = "val" THEN h.race_history.v ELSE <<>>
      pos  == SelectSeq(Take(hist, 3),
                        LAMBDA r : r.last_3f.k = "val" /\ r.last_3f.v > 0)
  IN  IF pos = <<>> THEN <<0, 1>>
      ELSE RDiv(RSum([j \in 1..Len(pos) |-> R(pos[j].last_3f.v, 10)]),
                RInt(Len(pos)))

\* average of the closing averages of the entrants given that have one
FieldAvgOver(entrants) ==
  LET with == SelectSeq(entrants, LAMBDA h : ClosingAvg(h)[1] > 0)
  IN  IF with = <<>> THEN <<0, 1>>
      ELSE RDiv(RSum([j \in 1..Len(with) |-> ClosingAvg(with[j])]),
                RInt(Len(with)))

\* 1.00 when either average is missing, else
\* 1.0 + (field_avg - horse_avg) * 0.024 clamped to [0.88, 1.12]
FactorOfClosing(field_avg, horse_avg) ==
  IF field_avg[1] <= 0 \/ horse_avg[1] <= 0 THEN <<1, 1>>
  ELSE LET mult == RAdd(RInt(1), RMul(RSub(field_avg, horse_avg), R(3, 125)))
       IN  IF RLt(mult, R(22, 25)) THEN R(22, 25)
           ELSE IF RLt(R(28, 25), mult) THEN R(28, 25)
           ELSE mult

C20_FormScorePositive ==
  pc = "scored" =>
    /\ RLe(R(24, 25), result.gate_factor)
    /\ RLe(R(9, 10), result.weight_change_factor)
    /\ RLe(R(4, 5), result.ranking_factor)
    /\ RLe(R(22, 25), result.last3f_factor)
    /\ result.form_score =
         RMul(RMul(result.gate_factor, result.weight_change_factor),
              RMul(result.ranking_factor, result.last3f_factor))
    /\ result.form_score[1] > 0
    /\ result.total_form[1] > 0
    /\ \A i \in 1..Len(ev_out) :
         (horses[i].odds_win.k = "val" /\ horses[i].odds_win.v > 0) =>
           /\ ev_out[i].win_probability[1] > 0
           /\ RLe(ev_out[i].win_probability, RInt(1))

\* C20 witness: a ranking larger than field_size, an outer gate and an
\* extreme weight change: three factors at their lower bounds
C20_Witness ==
  /\ pc = "scored"
  /\ \E j \in 1..Len(ScoredHistory) :
       /\ Qualifying(ScoredHistory[j])
       /\ ScoredHistory[j].ranking.v > ScoredHistory[j].field_size.v
  /\ result.gate_factor = <<24, 25>>
  /\ result.weight_change_factor = <<9, 10>>
  /\ result.ranking_factor = <<4, 5>>
  /\ Len(horses) >= 2


\* sum of the expected_return of the bets (in 1/100, each already rounded
\* to 2 decimals, so the rounded sum is the sum)
RECURSIVE SumBetsExpected(_)
SumBetsExpected(bets) ==
  IF bets = <<>> THEN 0
  ELSE bets[1].expected_return + SumBetsExpected(Tail(bets))

\* the handler has ended for a non-empty entrant list
HandlerEnded ==
  /\ horses # <<>>
  /\ pc \in {"responded", "handler_raised", "raised"}

\* C21 as claimed: for a non-empty entrant list optimize_bets ends without
\* raising, with the optimizer's bets as `bets` and the sum of their
\* expected_return, rounded to 2 decimals, as `expected_return`.
C21_AsClaimed ==
  HandlerEnded =>
    /\ pc = "responded"
    /\ response.status = "ok"
    /\ response.bets = result.bets
    /\ response.expected_return =
         SumBetsExpected(result.bets)


\* the first n records of s for n >= 0; for n < 0, what s[:n] is in Python:
\* s without its last -n records
FirstRecords(s, n) ==
  LET m == IF n >= 0 THEN (IF n < Len(s) THEN n ELSE Len(s))
           ELSE (IF Len(s) + n > 0 THEN Len(s) + n ELSE 0)
  IN  [i \in 1..m |-> s[i]]

\* the step is a call get_horse_history(...)
IsGet == last'.op = "get"

\* C22: the cache changes only by storing the history of a fetch that
\* returned status 200 and was parsed, or by clear_cache emptying it; a call
\* that fails returns [] and leaves the cache as it was, the id still
\* uncached; a call for an uncached, non-empty id sends a request; a call
\* for a cached id sends none and returns the first n_races records of the
\* stored history whatever n_races is; a call with an empty id returns []
\* without a request or a cache change.
C22_Cache ==
  /\ [][cache' # cache =>
          \/ /\ IsGet
             /\ last'.requested
             /\ ~last'.raised
             /\ last'.status = 200
             /\ last'.horse_id \notin DOMAIN cache
             /\ DOMAIN cache' = DOMAIN cache \cup {last'.horse_id}
             /\ \A h \in DOMAIN cache : cache'[h] = cache[h]
             /\ cache'[last'.horse_id] \in SiteHistories
             /\ last'.ret =
                  FirstRecords(cache'[last'.horse_id], last'.n_races)
          \/ /\ last'.op = "clear"
             /\ cache' = <<>>]_vars
  /\ [][(IsGet /\ last'.requested /\ (last'.raised \/ last'.status # 200)) =>
          /\ last'.ret = <<>>
          /\ cache' = cache
          /\ last'.horse_id \notin DOMAIN cache']_vars
  /\ [][(IsGet /\ last'.horse_id # "" /\ last'.horse_id \notin DOMAIN cache) =>
          /\ last'.requested
          /\ fetches' = fetches + 1]_vars
  /\ [][(IsGet /\ last'.horse_id \in DOMAIN cache) =>
          /\ ~last'.requested
          /\ fetches' = fetches
          /\ cache' = cache
          /\ last'.ret = FirstRecords(cache[last'.horse_id], last'.n_races)]_vars
  /\ [][(IsGet /\ last'.horse_id = "") =>
          /\ ~last'.requested
          /\ fetches' = fetches
          /\ cache' = cache
          /\ last'.ret = <<>>]_vars
  /\ [][last'.op = "clear" => cache' = <<>> /\ fetches' = fetches]_vars
  /\ []("" \notin DOMAIN cache)

\* C22 witness: after three requests, one id is cached and the other not,
\* and the latest call was served from the cache with fewer records than
\* are stored
C22_Witness ==
  /\ fetches = 3
  /\ DOMAIN cache = {"h1"}
  /\ last.op = "get"
  /\ last.horse_id = "h1"
  /\ ~last.requested
  /\ last.n_races = 2
  /\ Len(cache["h1"]) = 3
  /\ last.ret = <<cache["h1"][1], cache["h1"][2]>>

====
